---- MODULE Spec2Model ----
(***************************************************************************)
(* Model of src/src/Utility.cc of FastEMRIWaveforms: the elliptic-integral *)
(* adapters, the Kerr geodesic frequency engine, the Brent root-solver     *)
(* wrapper, get_separatrix, Y_to_xI and their batch (vector) forms.        *)
(*                                                                         *)
(* Real numbers (double) are carried on a fixed-point grid of 1/SCALE.     *)
(* The sign of each root function on the grid is tabulated from the        *)
(* source expressions evaluated in double precision; a root of a function  *)
(* lies strictly between two neighbouring grid points unless stated.       *)
(***************************************************************************)
EXTENDS Integers, Sequences, FiniteSets, TLC

\* one unit of the value grid is 1/SCALE
SCALE == 10000

\* ------------------------------------------------------------------------
\* Program constants
\* ------------------------------------------------------------------------
\* solver: int max_iter = 1000
max_iter == 1000
\* solver: double epsrel = 0.001, kept as its reciprocal
epsrel_inv == 1000
\* #define YLIM 0.998
YLIM == 9980
\* Y_to_xI: half width 0.15 of the bracket around Y
Y_half_width == 1500
\* get_separatrix: x_lo = 1 + sqrt(3) + sqrt(3 + 2 sqrt(3)) of the polar solve
polar_x_lo == 52745
\* get_separatrix: x_hi = 8 of the polar solve
polar_x_hi == 80000
\* get_separatrix: x_hi = 12 of the retrograde full solve
retro_x_hi == 120000

\* ------------------------------------------------------------------------
\* Input grids
\* ------------------------------------------------------------------------
AVals == {0, 5000}
\* a spin below the unit of the grid (a = 1e-12), kept as the smallest
\* nonzero grid value: the test a == 0.0 is false for it
SmallSpin == 1
EVals == {0, 2000}
XVals == {-10000, -5000, 0, 5000, 10000}
YVals == {-9990, -9980, -5000, 0, 5000, 9980, 9990}
PVals == {100000}
Threads == {0, 1}
Main == 0

Abs(v) == IF v < 0 THEN -v ELSE v
MinOf(u, v) == IF u < v THEN u ELSE v
MaxOf(u, v) == IF u < v THEN v ELSE u

\* ------------------------------------------------------------------------
\* Sign tables of the root functions (a = 0.5 is the only nonzero spin of
\* AVals).  Each entry is the grid point just below a sign change.  At
\* SmallSpin the roots of the polar and the equatorial polynomial lie within
\* 1e-8 of 6 + 2e and the full polynomial is positive at every grid point.
\* ------------------------------------------------------------------------
\* separatrix_polynomial_polar: negative left of its root
PolarRoots(a, e) ==
    IF a = SmallSpin THEN {6 * SCALE + 2 * e - 1}
    ELSE IF e = 0 THEN {58416} ELSE {62283}

\* separatrix_polynomial_equat: positive left of its first root
EquatRoots(a, e) ==
    IF a = SmallSpin THEN {6 * SCALE + 2 * e - 1, 6 * SCALE + 2 * e}
    ELSE IF e = 0 THEN {42330, 75545} ELSE {45259, 80488}

\* separatrix_polynomial_full: even in x, positive left of its first root
FullRoots(a, e, x) ==
    CASE a = SmallSpin  -> {}
      [] Abs(x) = 10000 -> EquatRoots(a, e)
      [] Abs(x) = 5000  -> (IF e = 0 THEN {50107, 66948} ELSE {53474, 71345})
      [] Abs(x) = 1     -> (IF e = 0 THEN {58415, 58418} ELSE {62281, 62284})
      [] OTHER          -> {}

\* Y_to_xI_eq at p = 10: Y - Y(x) is positive left of its root.  For a = 0
\* the function is Y - x and the root is the grid point Y itself.
YRoot(a, e, Y) ==
    IF a = 0 THEN Y - 1
    ELSE CASE Y = -9980 -> -9981
           [] Y = -5000 -> -5003
           [] Y = 0     -> -1
           [] Y = 5000  -> 5002
           [] Y = 9980  -> 9980
           [] OTHER     -> Y

Parity(S, pt) == Cardinality({z \in S : z < pt}) % 2

\* separatrix_polynomial_polar(p, params): sign at grid point pt
separatrix_polynomial_polar(prm, pt) ==
    IF Parity(PolarRoots(prm.a, prm.e), pt) = 0 THEN "neg" ELSE "pos"

\* separatrix_polynomial_equat(p, params): sign at grid point pt
separatrix_polynomial_equat(prm, pt) ==
    IF Parity(EquatRoots(prm.a, prm.e), pt) = 0 THEN "pos" ELSE "neg"

\* separatrix_polynomial_full(p, params): sign at grid point pt
separatrix_polynomial_full(prm, pt) ==
    IF Parity(FullRoots(prm.a, prm.e, prm.x), pt) = 0 THEN "pos" ELSE "neg"

\* KerrGeoEnergy: 0/0 for a circular orbit (r1 = r2) and division by
\* pow(x, 2) at x = 0
KerrGeoEnergyIsNaN(e, x) == e = 0 \/ x = 0

\* Y_to_xI_eq(x, params): sign at grid point pt ("neg", "zero", "pos"),
\* "nan" where the energy is
Y_to_xI_eq(prm, pt) ==
    IF KerrGeoEnergyIsNaN(prm.e, pt) THEN "nan"
    ELSE IF prm.a = 0 /\ pt = prm.Y THEN "zero"
    ELSE IF pt <= YRoot(prm.a, prm.e, prm.Y) THEN "pos" ELSE "neg"

\* value of the gsl_function F at pt
FnSign(func, prm, pt) ==
    CASE func = "polar" -> separatrix_polynomial_polar(prm, pt)
      [] func = "equat" -> separatrix_polynomial_equat(prm, pt)
      [] func = "full"  -> separatrix_polynomial_full(prm, pt)
      [] OTHER          -> Y_to_xI_eq(prm, pt)

\* grid points just below a sign change of F
FnRoots(func, prm) ==
    CASE func = "polar" -> PolarRoots(prm.a, prm.e)
      [] func = "equat" -> EquatRoots(prm.a, prm.e)
      [] func = "full"  -> FullRoots(prm.a, prm.e, prm.x)
      [] OTHER          -> {YRoot(prm.a, prm.e, prm.Y)}

\* ------------------------------------------------------------------------
\* Program state
\* ------------------------------------------------------------------------
VARIABLES
    stack,       \* per thread: the call stack, innermost frame last
    acct,        \* per thread: solver calls and diagnostics of the running call
    res,         \* per thread: outcome of the last completed top-level call
    gslHandler,  \* the process-wide GSL error handler: "default" or "off"
    heap,        \* number of live gsl_root_fsolver workspaces
    proc,        \* "running", "aborted", "crashed" or "terminated"
    batch,       \* the batch (vector) call in progress, or NoBatch
    useOmp       \* whether the build defines __USE_OMP__

vars == <<stack, acct, res, gslHandler, heap, proc, batch, useOmp>>

NoWs == [kind |-> "none", root |-> 0, lo |-> 0, hi |-> 0, opt |-> 0]
NoRes == [fn |-> "none"]
NoBatch == [fn |-> "none", in |-> <<>>, out |-> <<>>, taken |-> {},
            cur |-> [t \in Threads |-> 0]]
NoAcct == [solves |-> 0, direct |-> 0, lines |-> 0, maxIter |-> 0]

\* a call frame; only the fields of its function are meaningful
Frame(fn, a, p, e, x, Y) ==
    [fn |-> fn, pc |-> "start", a |-> a, p |-> p, e |-> e, x |-> x, Y |-> Y,
     func |-> "none", x_lo |-> 0, x_hi |-> 0, iter |-> 0, status |-> "none",
     r |-> 0, s |-> NoWs, rv |-> 0, polar_p_sep |-> 0, equat_p_sep |-> 0,
     p_sep |-> 0]

\* the frame of solver(params, func, x_lo, x_hi)
SolverFrame(prm, func, lo, hi) ==
    [Frame("solver", prm.a, prm.p, prm.e, prm.x, prm.Y)
        EXCEPT !.func = func, !.x_lo = lo, !.x_hi = hi]

Top(t) == stack[t][Len(stack[t])]
Running(t) == proc = "running" /\ stack[t] # <<>>
At(t, fn, pc) == Running(t) /\ Top(t).fn = fn /\ Top(t).pc = pc

\* replace the innermost frame of thread t
SetTop(t, fr) == [stack EXCEPT ![t] = SubSeq(@, 1, Len(@) - 1) \o <<fr>>]
\* replace the innermost frame and push a callee
Call(t, fr, callee) ==
    [stack EXCEPT ![t] = SubSeq(@, 1, Len(@) - 1) \o <<fr, callee>>]
\* pop the innermost frame and hand its value to the caller
Return(t, v) ==
    LET n == Len(stack[t]) IN
    IF n = 1 THEN [stack EXCEPT ![t] = <<>>]
    ELSE [stack EXCEPT ![t] =
            SubSeq(@, 1, n - 2) \o <<[stack[t][n - 1] EXCEPT !.rv = v]>>]

\* the record left behind by a top-level call
Outcome(fr, kind, v, err, ac) ==
    [fn |-> fr.fn, a |-> fr.a, p |-> fr.p, e |-> fr.e, x |-> fr.x, Y |-> fr.Y,
     outcome |-> kind, val |-> v, err |-> err,
     solves |-> ac.solves, direct |-> ac.direct, lines |-> ac.lines,
     maxIter |-> ac.maxIter]

\* res after the innermost frame of t returns v
ResAfterReturn(t, v) ==
    IF Len(stack[t]) = 1
    THEN [res EXCEPT ![t] = Outcome(stack[t][1], "return", v, "none", acct[t])]
    ELSE res

\* ------------------------------------------------------------------------
\* GSL root finding as used by solver
\* ------------------------------------------------------------------------
\* an interval test that accepts every interval (checks that C16 depends on
\* the test)
gsl_root_test_interval_any(lo, hi) == "SUCCESS"

\* gsl_root_test_interval(x_lo, x_hi, 0.0, epsrel)
gsl_root_test_interval(lo, hi) ==
    IF lo > hi THEN "EINVAL"
    ELSE LET min_abs == IF (lo > 0 /\ hi > 0) \/ (lo < 0 /\ hi < 0)
                        THEN MinOf(Abs(lo), Abs(hi)) ELSE 0
         IN IF (hi - lo) * epsrel_inv < min_abs THEN "SUCCESS" ELSE "CONTINUE"

Mid(lo, hi) == (lo + hi) \div 2

\* values an uninitialised Brent state can hold
GarbageVal == 5000

\* gsl_root_fsolver_set(s, &F, x_lo, x_hi); its return value is ignored.
\* kind "ok": endpoints straddle; "nostraddle": EINVAL from brent_init with
\* the state initialised; "garbage": EBADFUNC, Brent state uninitialised;
\* "nofunc": EINVAL before the function is stored.
gsl_root_fsolver_set(func, prm, lo, hi, opt) ==
    LET flo == FnSign(func, prm, lo)
        fhi == FnSign(func, prm, hi)
        kind == IF lo > hi THEN "nofunc"
                ELSE IF flo = "nan" \/ fhi = "nan" THEN "garbage"
                ELSE IF flo = fhi /\ flo # "zero"
                     THEN "nostraddle" ELSE "ok"
    IN [kind |-> kind,
        root |-> IF kind = "nofunc" THEN 0 ELSE Mid(lo, hi),
        lo |-> IF kind = "nofunc" THEN 0 ELSE lo,
        hi |-> IF kind = "nofunc" THEN 0 ELSE hi,
        opt |-> IF kind = "nostraddle" THEN 1 ELSE opt]

\* distance from pt to the nearest sign change of F
RootDist(func, prm, pt) ==
    LET R == FnRoots(func, prm) IN
    IF R = {} THEN 0
    ELSE LET D == {2 * Abs(pt - z) + (IF pt > z THEN -1 ELSE 1) : z \in R}
         IN CHOOSE d \in D : \A d2 \in D : d <= d2

\* the point Brent evaluates next inside the straddling bracket (lo, hi):
\* the midpoint (bisection) or, when interpolating, a grid neighbour of the
\* sign change
BrentPoint(func, prm, ws) ==
    LET inside == {z \in FnRoots(func, prm) : ws.lo <= z /\ z < ws.hi}
        z0 == IF inside = {} THEN ws.lo
              ELSE CHOOSE z \in inside : \A z2 \in inside : z <= z2
    IN IF ws.opt = 1 \/ inside = {} THEN Mid(ws.lo, ws.hi)
       ELSE IF z0 > ws.lo THEN z0
       ELSE IF z0 + 1 < ws.hi THEN z0 + 1
       ELSE Mid(ws.lo, ws.hi)

\* gsl_root_fsolver_iterate(s) on a workspace whose function was stored
brent_iterate(func, prm, ws) ==
    LET flo == FnSign(func, prm, ws.lo)
        fhi == FnSign(func, prm, ws.hi)
        b == BrentPoint(func, prm, ws)
        fb == FnSign(func, prm, b)
    IN CASE ws.kind = "garbage" ->
              \* undefined: the state is whatever the allocation held
              (IF ws.opt = 1
               THEN [ws EXCEPT !.root = 0, !.lo = 0, !.hi = 0]
               ELSE [ws EXCEPT !.root = GarbageVal, !.lo = GarbageVal,
                               !.hi = GarbageVal])
         [] ws.kind = "nostraddle" ->
              \* every value has the same sign: the far end moves to the
              \* midpoint, the end with the smaller |f| stays
              (IF ws.hi - ws.lo <= 1 THEN ws
               ELSE IF RootDist(func, prm, ws.hi) <= RootDist(func, prm, ws.lo)
               THEN [ws EXCEPT !.lo = Mid(ws.lo, ws.hi),
                               !.root = Mid(ws.lo, ws.hi)]
               ELSE [ws EXCEPT !.hi = Mid(ws.lo, ws.hi),
                               !.root = Mid(ws.lo, ws.hi)])
         [] OTHER ->
              (IF fhi = "zero" THEN [ws EXCEPT !.root = ws.hi, !.lo = ws.hi]
               ELSE IF flo = "zero" THEN [ws EXCEPT !.root = ws.lo, !.hi = ws.lo]
               ELSE IF ws.hi - ws.lo <= 1 THEN ws
               ELSE IF fb = "nan" THEN ws      \* GSL_EBADFUNC, nothing stored
               ELSE IF fb = "zero" THEN [ws EXCEPT !.root = b, !.lo = b, !.hi = b]
               ELSE IF fb = flo THEN [ws EXCEPT !.root = b, !.lo = b]
               ELSE [ws EXCEPT !.root = b, !.hi = b])

\* the host may make a call: nothing is running on the main thread
Idle == proc = "running" /\ batch.fn = "none" /\ stack[Main] = <<>>

\* ------------------------------------------------------------------------
\* Exceptions
\* ------------------------------------------------------------------------
\* inside "#pragma omp parallel for" of a build with __USE_OMP__
InParallel == batch.fn # "none" /\ useOmp

\* no function of the file catches: an exception unwinds the whole stack of
\* its thread; one that leaves an OpenMP parallel region ends the process
StackAfterThrow(t) ==
    IF InParallel THEN stack ELSE [stack EXCEPT ![t] = <<>>]
ProcAfterThrow == IF InParallel THEN "terminated" ELSE proc
ResAfterThrow(t, err) ==
    IF InParallel THEN res
    ELSE [res EXCEPT ![t] = Outcome(stack[t][1], "throw", 0, err, acct[t])]
\* an exception leaving the loop of a batch function ends the batch call
BatchAfterThrow == IF InParallel THEN batch ELSE NoBatch

\* ------------------------------------------------------------------------
\* solver (params, func, x_lo, x_hi)
\* ------------------------------------------------------------------------
\* gsl_set_error_handler_off(); alloc; gsl_root_fsolver_set
solver_init(t) ==
    /\ At(t, "solver", "start")
    /\ \E opt \in {1, 2} :
         LET fr == Top(t)
             ws == gsl_root_fsolver_set(fr.func, fr, fr.x_lo, fr.x_hi, opt)
         IN stack' = SetTop(t, [fr EXCEPT !.s = ws, !.pc = "loop"])
    /\ gslHandler' = "off"
    /\ heap' = heap + 1
    /\ acct' = [acct EXCEPT ![t].solves = @ + 1,
                            ![t].direct = @ + (IF Len(stack[t]) = 2 THEN 1 ELSE 0)]
    /\ UNCHANGED <<res, proc, batch, useOmp>>

\* one pass of the do-while loop
solver_iterate(t) ==
    /\ At(t, "solver", "loop")
    /\ LET fr == Top(t) IN
       IF fr.s.kind = "nofunc" /\ fr.s.opt = 1
       THEN \* the stored function pointer is NULL
            /\ proc' = "crashed"
            /\ UNCHANGED <<stack, acct>>
       ELSE LET ws == brent_iterate(fr.func, fr, fr.s)
                st == gsl_root_test_interval(ws.lo, ws.hi)
                it == fr.iter + 1
            IN /\ stack' = SetTop(t, [fr EXCEPT
                      !.iter = it, !.s = ws, !.r = ws.root,
                      !.x_lo = ws.lo, !.x_hi = ws.hi, !.status = st,
                      !.pc = IF st = "CONTINUE" /\ it < max_iter
                             THEN "loop" ELSE "check"])
               /\ acct' = [acct EXCEPT ![t].maxIter = MaxOf(@, it)]
               /\ proc' = proc
    /\ UNCHANGED <<res, gslHandler, heap, batch, useOmp>>

\* a cap test that never holds, so that exhaustion takes the throw (checks
\* that C3 depends on the test)
hit_max_iter_never(fr) == FALSE

\* if (iter == max_iter): the loop ended on the iteration cap
hit_max_iter(fr) == fr.iter = max_iter

\* an exit that keeps the workspace (checks that C22 depends on the release)
gsl_root_fsolver_free_skipped(h) == h

\* gsl_root_fsolver_free (s): one live workspace less
gsl_root_fsolver_free(h) == h - 1

\* after the loop: warn and evaluate get_separatrix(a, e, r) for the third
\* diagnostic line, or throw, or free the workspace and return r
solver_finish(t) ==
    /\ At(t, "solver", "check")
    /\ LET fr == Top(t) IN
       IF fr.status # "SUCCESS"
       THEN IF hit_max_iter(fr)
            THEN /\ stack' = Call(t, [fr EXCEPT !.pc = "diag"],
                                  Frame("get_separatrix", fr.a, 0, fr.e, fr.r, 0))
                 /\ acct' = [acct EXCEPT ![t].lines = @ + 2]
                 /\ UNCHANGED <<res, heap, proc, batch>>
            ELSE /\ stack' = StackAfterThrow(t)
                 /\ res' = ResAfterThrow(t, "RootSolverFailure")
                 /\ proc' = ProcAfterThrow
                 /\ batch' = BatchAfterThrow
                 /\ UNCHANGED <<acct, heap>>
       ELSE /\ stack' = Return(t, fr.r)
            /\ res' = ResAfterReturn(t, fr.r)
            /\ heap' = gsl_root_fsolver_free(heap)
            /\ UNCHANGED <<acct, proc, batch>>
    /\ UNCHANGED <<gslHandler, useOmp>>

\* the nested get_separatrix has returned: print the third line, free, return r
solver_diag(t) ==
    /\ At(t, "solver", "diag")
    /\ stack' = Return(t, Top(t).r)
    /\ res' = [ResAfterReturn(t, Top(t).r) EXCEPT ![t] =
                 IF Len(stack[t]) = 1 THEN [@ EXCEPT !.lines = @ + 1] ELSE @]
    /\ acct' = [acct EXCEPT ![t].lines = @ + 1]
    /\ heap' = gsl_root_fsolver_free(heap)
    /\ UNCHANGED <<gslHandler, proc, batch, useOmp>>

\* ------------------------------------------------------------------------
\* get_separatrix(a, e, x)
\* ------------------------------------------------------------------------
\* closed form of the circular equatorial separatrix at a = 0.5
\* (3 + z2 - sqrt(..) prograde, 3 + z2 + sqrt(..) retrograde), rounded down
CircularEquatorial(a, x) == IF x > 0 THEN 42330 ELSE 75545

\* a closed form that loses the factor of e (checks that C9 depends on it)
p_sep_schwarzschild_e(e) == 6 * SCALE + e

\* p_sep = 6.0 + 2.0 * e
p_sep_schwarzschild(e) == 6 * SCALE + 2 * e

get_separatrix_start(t) ==
    /\ At(t, "get_separatrix", "start")
    /\ LET fr == Top(t) IN
       IF fr.a = 0
       THEN /\ stack' = Return(t, p_sep_schwarzschild(fr.e))
            /\ res' = ResAfterReturn(t, p_sep_schwarzschild(fr.e))
       ELSE IF fr.e = 0 /\ Abs(fr.x) = SCALE
       THEN /\ stack' = Return(t, CircularEquatorial(fr.a, fr.x))
            /\ res' = ResAfterReturn(t, CircularEquatorial(fr.a, fr.x))
       ELSE /\ stack' = Call(t, [fr EXCEPT !.pc = "polar"],
                     SolverFrame([fr EXCEPT !.p = 0, !.Y = 0], "polar",
                                 polar_x_lo, polar_x_hi))
            /\ res' = res
    /\ UNCHANGED <<acct, gslHandler, heap, proc, batch, useOmp>>

\* a test for the polar orbit that never holds (checks that C14 depends on
\* the early return)
is_polar_orbit_never(x) == FALSE

\* if (x == 0.0) return polar_p_sep
is_polar_orbit(x) == x = 0

\* a test for the prograde orbit that never holds (checks that C15 depends
\* on the equatorial solve)
is_prograde_never(x) == FALSE

\* if (x > 0.0)
is_prograde(x) == x > 0

\* polar_p_sep is known: return it at x = 0, else run the next solve
get_separatrix_polar(t) ==
    /\ At(t, "get_separatrix", "polar")
    /\ LET fr == [Top(t) EXCEPT !.polar_p_sep = Top(t).rv] IN
       IF is_polar_orbit(fr.x)
       THEN /\ stack' = Return(t, fr.polar_p_sep)
            /\ res' = ResAfterReturn(t, fr.polar_p_sep)
       ELSE IF is_prograde(fr.x)
       THEN /\ stack' = Call(t, [fr EXCEPT !.pc = "equat"],
                     SolverFrame([fr EXCEPT !.p = 0, !.Y = 0], "equat",
                                 SCALE + fr.e, 6 * SCALE + 2 * fr.e))
            /\ res' = res
       ELSE /\ stack' = Call(t, [fr EXCEPT !.pc = "full"],
                     SolverFrame([fr EXCEPT !.p = 0, !.Y = 0], "full",
                                 fr.polar_p_sep, retro_x_hi))
            /\ res' = res
    /\ UNCHANGED <<acct, gslHandler, heap, proc, batch, useOmp>>

\* equat_p_sep is known: solve the full polynomial between the two
get_separatrix_equat(t) ==
    /\ At(t, "get_separatrix", "equat")
    /\ LET fr == [Top(t) EXCEPT !.equat_p_sep = Top(t).rv] IN
       stack' = Call(t, [fr EXCEPT !.pc = "full"],
                     SolverFrame([fr EXCEPT !.p = 0, !.Y = 0], "full",
                                 fr.equat_p_sep, fr.polar_p_sep))
    /\ UNCHANGED <<acct, res, gslHandler, heap, proc, batch, useOmp>>

\* return p_sep of the full solve
get_separatrix_full(t) ==
    /\ At(t, "get_separatrix", "full")
    /\ stack' = Return(t, Top(t).rv)
    /\ res' = ResAfterReturn(t, Top(t).rv)
    /\ UNCHANGED <<acct, gslHandler, heap, proc, batch, useOmp>>

\* ------------------------------------------------------------------------
\* Y_to_xI(a, p, e, Y)
\* ------------------------------------------------------------------------
\* a comparison with YLIM that is not strict (checks that C10 depends on it)
beyond_YLIM_or_equal(Y) == Abs(Y) >= YLIM

\* if (abs(Y) > YLIM)
beyond_YLIM(Y) == Abs(Y) > YLIM

\* a lower end that is not limited (checks that C18 depends on the limit)
limit_x_lo_none(x_lo) == x_lo

\* x_lo = x_lo > -YLIM? x_lo : -YLIM
limit_x_lo(x_lo) == IF x_lo > -YLIM THEN x_lo ELSE -YLIM

\* x_hi = x_hi < YLIM? x_hi : YLIM
limit_x_hi(x_hi) == IF x_hi < YLIM THEN x_hi ELSE YLIM

Y_to_xI_start(t) ==
    /\ At(t, "Y_to_xI", "start")
    /\ LET fr == Top(t)
           x_lo == limit_x_lo(fr.Y - Y_half_width)
           x_hi == limit_x_hi(fr.Y + Y_half_width)
       IN
       IF beyond_YLIM(fr.Y)
       THEN /\ stack' = Return(t, fr.Y)
            /\ res' = ResAfterReturn(t, fr.Y)
       ELSE /\ stack' = Call(t, [fr EXCEPT !.pc = "solve"],
                     SolverFrame([fr EXCEPT !.x = 0], "Y_to_xI_eq", x_lo, x_hi))
            /\ res' = res
    /\ UNCHANGED <<acct, gslHandler, heap, proc, batch, useOmp>>

Y_to_xI_solved(t) ==
    /\ At(t, "Y_to_xI", "solve")
    /\ stack' = Return(t, Top(t).rv)
    /\ res' = ResAfterReturn(t, Top(t).rv)
    /\ UNCHANGED <<acct, gslHandler, heap, proc, batch, useOmp>>

\* one step of whatever function thread t is executing
Step(t) ==
    \/ solver_init(t)
    \/ solver_iterate(t)
    \/ solver_finish(t)
    \/ solver_diag(t)
    \/ get_separatrix_start(t)
    \/ get_separatrix_polar(t)
    \/ get_separatrix_equat(t)
    \/ get_separatrix_full(t)
    \/ Y_to_xI_start(t)
    \/ Y_to_xI_solved(t)

\* ------------------------------------------------------------------------
\* Elliptic-integral adapters
\* ------------------------------------------------------------------------
KVals == {5000, 10000, 50000}
NVals == {0, 5000}
PhiVals == {5000, 15708}

\* sin(phi)^2 on the grid, for the amplitudes of PhiVals
Sin2(phi) == IF phi = 5000 THEN 2298 ELSE SCALE

\* status of the gsl_sf_ellint_*_e call made by an adapter, which passes
\* sqrt(k): the complete integrals report a domain error when k >= 1, the
\* incomplete ones when k sin(phi)^2 > 1
gsl_sf_ellint(kind, phi, k) ==
    IF kind \in {"EllipticK", "EllipticE", "EllipticPi"}
    THEN (IF k >= SCALE THEN "EDOM" ELSE "SUCCESS")
    ELSE (IF k * Sin2(phi) > SCALE * SCALE THEN "EDOM" ELSE "SUCCESS")

\* the arguments formatted into the message of the exception
EllipticMessage(kind, n, phi, k) ==
    CASE kind = "EllipticK"        -> {<<"k", k>>}
      [] kind = "EllipticF"        -> {<<"phi", phi>>, <<"k", k>>}
      [] kind = "EllipticE"        -> {<<"k", k>>}
      [] kind = "EllipticEIncomp"  -> {<<"k", k>>}
      [] kind = "EllipticPi"       -> {<<"k", k>>, <<"n", n>>}
      [] OTHER                     -> {<<"k", k>>}

\* the arguments the adapter was called with
EllipticArgs(kind, n, phi, k) ==
    CASE kind \in {"EllipticK", "EllipticE"}        -> {<<"k", k>>}
      [] kind \in {"EllipticF", "EllipticEIncomp"}  -> {<<"phi", phi>>, <<"k", k>>}
      [] kind = "EllipticPi"                        -> {<<"k", k>>, <<"n", n>>}
      [] OTHER                    -> {<<"k", k>>, <<"n", n>>, <<"phi", phi>>}

\* what a GSL error does before the adapter sees the status: the default
\* handler aborts the process, the null handler lets the call return
GslErrorAborts == gslHandler = "default"

\* body shared by the six adapters
Elliptic(kind, n, phi, k) ==
    LET status == gsl_sf_ellint(kind, phi, k)
        outcome == IF status = "SUCCESS" THEN "return"
                   ELSE IF GslErrorAborts THEN "abort" ELSE "throw"
    IN /\ Idle
       /\ res' = [res EXCEPT ![Main] =
             [fn |-> kind, args |-> EllipticArgs(kind, n, phi, k),
              status |-> status, outcome |-> outcome,
              err |-> IF outcome = "throw" THEN "NumericalFailure" ELSE "none",
              msg |-> IF outcome = "throw" THEN EllipticMessage(kind, n, phi, k)
                      ELSE {},
              handler |-> gslHandler]]
       /\ proc' = IF outcome = "abort" THEN "aborted" ELSE proc
       /\ UNCHANGED <<stack, acct, gslHandler, heap, batch, useOmp>>

EllipticK == \E k \in KVals : Elliptic("EllipticK", 0, 0, k)
EllipticF == \E phi \in PhiVals, k \in KVals : Elliptic("EllipticF", 0, phi, k)
EllipticE == \E k \in KVals : Elliptic("EllipticE", 0, 0, k)
EllipticEIncomp ==
    \E phi \in PhiVals, k \in KVals : Elliptic("EllipticEIncomp", 0, phi, k)
EllipticPi == \E n \in NVals, k \in KVals : Elliptic("EllipticPi", n, 0, k)
EllipticPiIncomp ==
    \E n \in NVals, phi \in PhiVals, k \in KVals :
        Elliptic("EllipticPiIncomp", n, phi, k)

\* ------------------------------------------------------------------------
\* Frequency engine.  A double is carried as its IEEE class:
\* "nan", "ninf", "neg", "zero", "pos" or "pinf" (zero stands for +0).
\* ------------------------------------------------------------------------
IsNaN(c) == c = "nan"
IsInf(c) == c \in {"pinf", "ninf"}
Negative(c) == c \in {"neg", "ninf"}

\* sqrt
Sqrt(c) == IF Negative(c) THEN "nan" ELSE c

\* abs
AbsC(c) == CASE c = "neg" -> "pos" [] c = "ninf" -> "pinf" [] OTHER -> c

\* n / d
Div(n, d) ==
    CASE IsNaN(n) \/ IsNaN(d)          -> "nan"
      [] IsInf(n) /\ IsInf(d)          -> "nan"
      [] n = "zero" /\ d = "zero"      -> "nan"
      [] d = "zero"                    -> (IF Negative(n) THEN "ninf" ELSE "pinf")
      [] IsInf(d)                      -> "zero"
      [] n = "zero"                    -> "zero"
      [] IsInf(n)   -> (IF Negative(n) = Negative(d) THEN "pinf" ELSE "ninf")
      [] OTHER      -> (IF Negative(n) = Negative(d) THEN "pos" ELSE "neg")

\* orbits the frequency functions are called with: spin and semi-latus
\* rectum on the grid; nudge marks the doubles a few ulps below the grid
\* point, a = 0.99999999999999978 and p = 0.9999999833399954
FreqOrbits ==
    {[a |-> 0,     p |-> 30000,  nudge |-> FALSE],
     [a |-> 0,     p |-> 100000, nudge |-> FALSE],
     [a |-> 0,     p |-> 125000, nudge |-> FALSE],
     [a |-> 5000,  p |-> 10000,  nudge |-> FALSE],
     [a |-> 5000,  p |-> 30000,  nudge |-> FALSE],
     [a |-> 5000,  p |-> 100000, nudge |-> FALSE],
     [a |-> 10000, p |-> 10000,  nudge |-> FALSE],
     [a |-> 10000, p |-> 10000,  nudge |-> TRUE]}
FreqXVals == {-10000, 5000, 10000}

\* classes of the four radicands of KerrEqGeoMinoFrequencies as the source
\* expressions evaluate in double precision:
\*   q = 3 a^2 - 4 a sqrt(p) + p^2,   c = 2 a + (p - 3) sqrt(p),
\*   N, D = numerator and denominator under the square root of Upsilon_r
EqRadicands(o) ==
    CASE o.a = 0 /\ o.p = 30000 ->
           [q |-> "pos", c |-> "zero", N |-> "neg", D |-> "zero"]
      [] o.a = 5000 /\ o.p = 10000 ->
           [q |-> "neg", c |-> "neg", N |-> "neg", D |-> "neg"]
      [] o.a = 5000 /\ o.p = 30000 ->
           [q |-> "pos", c |-> "pos", N |-> "neg", D |-> "pos"]
      [] o.a = 10000 /\ o.p = 10000 /\ ~o.nudge ->
           [q |-> "zero", c |-> "zero", N |-> "nan", D |-> "zero"]
      [] o.a = 10000 /\ o.p = 10000 /\ o.nudge ->
           [q |-> "zero", c |-> "zero", N |-> "neg", D |-> "neg"]
      [] OTHER ->
           [q |-> "pos", c |-> "pos", N |-> "pos", D |-> "pos"]

\* KerrEqGeoMinoFrequencies(&Gamma, &UpsilonPhi, &UpsilonTheta, &UpsilonR, ..)
KerrEqGeoMinoFrequencies(o) ==
    LET rad == EqRadicands(o) IN
    [CapitalUpsilonR     |-> Sqrt(Div(rad.N, rad.D)),
     CapitalUpsilonTheta |-> AbsC(Div(Sqrt(rad.q), Sqrt(rad.c))),
     CapitalUpsilonPhi   |-> Div("pos", Sqrt(rad.c)),
     CapitalGamma        |-> Div("pos", Sqrt(rad.c)),
     gsl                 |-> "SUCCESS"]

\* an orbit of the generic path that is bound and non-degenerate, so that
\* every intermediate is finite: eccentric, inclined, outside the separatrix
GenericRegular(o, e, x) ==
    e > 0 /\ x # 0 /\ o.p >= 100000 /\ o.a < SCALE

\* what the radial and polar halves of KerrGeoMinoFrequencies can evaluate
\* to: both finite on a regular orbit; elsewhere a NaN in either half, or a
\* failed elliptic evaluation
GenericChoices(o, e, x) ==
    IF GenericRegular(o, e, x)
    THEN {[r |-> "pos", th |-> "pos", gsl |-> "SUCCESS"]}
    ELSE {[r |-> "nan", th |-> "pos", gsl |-> "SUCCESS"],
          [r |-> "pos", th |-> "nan", gsl |-> "SUCCESS"],
          [r |-> "nan", th |-> "nan", gsl |-> "SUCCESS"],
          [r |-> "pos", th |-> "pos", gsl |-> "EDOM"]}

\* KerrGeoMinoFrequencies: UpsilonPhi and Gamma are sums with a term in
\* UpsilonTheta and a term in UpsilonR
KerrGeoMinoFrequencies(ch) ==
    LET mix == IF IsNaN(ch.r) \/ IsNaN(ch.th) THEN "nan" ELSE "pos" IN
    [CapitalUpsilonR     |-> ch.r,
     CapitalUpsilonTheta |-> ch.th,
     CapitalUpsilonPhi   |-> mix,
     CapitalGamma        |-> mix,
     gsl                 |-> ch.gsl]

\* UpsilonTheta against UpsilonPhi of KerrEqGeoMinoFrequencies: the first is
\* p^0.25 sqrt(3 a^2 - 4 a sqrt(p) + p^2) / sqrt(c), the second p^1.25 / sqrt(c),
\* so they compare as 3 a^2 - 4 a sqrt(p) compares with 0, that is, for a > 0,
\* as 9 a^2 with 16 p.  At a = 0 the radicand is p^2 and the two differ by
\* the rounding of pow(p, 0.25) * p against pow(p, 1.25): equal at p = 10,
\* one unit in the last place apart at p = 12.5 (double precision).
EqThetaVsPhi(o) ==
    IF o.a = 0 THEN (IF o.p = 125000 THEN "lt" ELSE "eq")
    ELSE LET lhs == (9 * o.a * o.a) \div SCALE      \* 9 a^2, rounded down
             rem == (9 * o.a * o.a) % SCALE
             rhs == 16 * o.p
         IN IF lhs < rhs THEN "lt"
            ELSE IF lhs > rhs \/ rem > 0 THEN "gt"
            ELSE "eq"

\* the test guarding the outputs of KerrGeoCoordinateFrequencies
NanCheck(m) ==
    IsNaN(m.CapitalUpsilonPhi) \/ IsNaN(m.CapitalGamma) \/ IsNaN(m.CapitalUpsilonR)

\* a path test that sends the retrograde orbit down the generic path (checks
\* that C19 depends on the absolute value)
is_equatorial_prograde_only(x) == x = SCALE

\* if (abs(x)==1.0)
is_equatorial(x) == Abs(x) = SCALE

\* outputs that are assigned before the call can fail (checks that C20
\* depends on the order of the statements)
outputs_assigned_first(outcome) == TRUE

\* *OmegaPhi_ = ..., *deltaOmegaR_ = ...: the assignments to the output
\* locations are the last statements, reached only by a call that returns
outputs_assigned(outcome) == outcome = "return"

\* KerrGeoCoordinateFrequencies(&OmegaPhi, &OmegaTheta, &OmegaR, a, p, e, x)
\* with ch the evaluation of the generic path; handler is the GSL handler
KerrGeoCoordinateFrequencies(o, e, x, ch, handler) ==
    LET path == IF is_equatorial(x) THEN "equatorial" ELSE "generic"
        m == IF path = "equatorial" THEN KerrEqGeoMinoFrequencies(o)
             ELSE KerrGeoMinoFrequencies(ch)
        outcome == IF m.gsl # "SUCCESS"
                   THEN (IF handler = "default" THEN "abort" ELSE "throw")
                   ELSE IF NanCheck(m) THEN "throw" ELSE "return"
        written == outputs_assigned(outcome)
    IN [fn |-> "KerrGeoCoordinateFrequencies",
        orbit |-> o, e |-> e, x |-> x, path |-> path, mino |-> m,
        outcome |-> outcome,
        err |-> IF outcome # "throw" THEN "none"
                ELSE IF m.gsl # "SUCCESS" THEN "NumericalFailure"
                ELSE "DomainError",
        OmegaPhi   |-> IF written THEN Div(m.CapitalUpsilonPhi, m.CapitalGamma)
                       ELSE "unset",
        OmegaTheta |-> IF written THEN Div(m.CapitalUpsilonTheta, m.CapitalGamma)
                       ELSE "unset",
        OmegaR     |-> IF written THEN Div(m.CapitalUpsilonR, m.CapitalGamma)
                       ELSE "unset",
        \* how OmegaTheta compares with OmegaPhi (both are divided by Gamma)
        thetaVsPhi |-> IF ~written \/ path # "equatorial" THEN "none"
                       ELSE IF IsNaN(Div(m.CapitalUpsilonPhi, m.CapitalGamma))
                               \/ IsNaN(Div(m.CapitalUpsilonTheta, m.CapitalGamma))
                       THEN "unordered"
                       ELSE EqThetaVsPhi(o)]

\* a generic-path evaluation for callers on the equatorial path, unused there
NoChoice == [r |-> "pos", th |-> "pos", gsl |-> "SUCCESS"]
ChoicesFor(o, e, x) ==
    IF is_equatorial(x) THEN {NoChoice} ELSE GenericChoices(o, e, x)

\* the scalar call made by the host
call_KerrGeoCoordinateFrequencies ==
    /\ Idle
    /\ \E o \in FreqOrbits, e \in EVals, x \in FreqXVals :
       \E ch \in ChoicesFor(o, e, x) :
         LET out == KerrGeoCoordinateFrequencies(o, e, x, ch, gslHandler) IN
         /\ res' = [res EXCEPT ![Main] = out]
         /\ proc' = IF out.outcome = "abort" THEN "aborted" ELSE proc
    /\ UNCHANGED <<stack, acct, gslHandler, heap, batch, useOmp>>

\* ------------------------------------------------------------------------
\* KerrEqSpinFrequenciesCorrection(&deltaOmegaR, &deltaOmegaPhi, a, p, e, x)
\* ------------------------------------------------------------------------
SpinIn ==
    {[a |-> 5000, p |-> 100000, e |-> 2000, x |-> 10000],
     [a |-> 5000, p |-> 30000,  e |-> 2000, x |-> 10000],
     [a |-> 5000, p |-> 100000, e |-> 0,    x |-> 10000]}

\* the adapter calls of the function in the order of the source: Kkr, Ekr,
\* Pihrkr, Pihmkr, Pihpkr, all with the modulus kr
SpinAdapterCalls ==
    <<"EllipticK", "EllipticE", "EllipticPi", "EllipticPi", "EllipticPi">>

\* the index of the first adapter call whose evaluation fails, 0 when none
\* does: none on a bound eccentric orbit (0 <= kr < 1), any where kr is not
\* below 1 or is NaN
SpinFirstFailure(in) ==
    IF in.e > 0 /\ in.p >= 100000 THEN {0} ELSE 0..Len(SpinAdapterCalls)

KerrEqSpinFrequenciesCorrection(in, failAt, handler) ==
    LET outcome == IF failAt = 0 THEN "return"
                   ELSE IF handler = "default" THEN "abort" ELSE "throw"
        written == outputs_assigned(outcome)
    IN [fn |-> "KerrEqSpinFrequenciesCorrection",
        a |-> in.a, p |-> in.p, e |-> in.e, x |-> in.x,
        outcome |-> outcome,
        err |-> IF outcome = "throw" THEN "NumericalFailure" ELSE "none",
        failed |-> IF failAt = 0 THEN "none" ELSE SpinAdapterCalls[failAt],
        deltaOmegaR   |-> IF written THEN "set" ELSE "unset",
        deltaOmegaPhi |-> IF written THEN "set" ELSE "unset"]

\* the scalar call made by the host
call_KerrEqSpinFrequenciesCorrection ==
    /\ Idle
    /\ \E in \in SpinIn : \E failAt \in SpinFirstFailure(in) :
         LET out == KerrEqSpinFrequenciesCorrection(in, failAt, gslHandler) IN
         /\ res' = [res EXCEPT ![Main] = out]
         /\ proc' = IF out.outcome = "abort" THEN "aborted" ELSE proc
    /\ UNCHANGED <<stack, acct, gslHandler, heap, batch, useOmp>>

\* ------------------------------------------------------------------------
\* KerrGeoConstantsOfMotion(&E, &L, &Q, a, p, e, x)
\* ------------------------------------------------------------------------
MotionIn == [a : AVals, p : PVals, e : EVals, x : XVals]

\* pow(x, 2), in units of 1 / SCALE^2
x_squared(x) == x * x

\* zm = sqrt(1 - pow(x, 2)); 1 - pow(zm, 2), in units of 1 / SCALE^2
one_minus_zm2(x) == SCALE * SCALE - (SCALE * SCALE - x_squared(x))

\* r1 = p/(1 - e) and r2 = p/(1 + e) are the same double at e = 0: every
\* antisymmetric combination of KerrGeoEnergy, and with them the
\* denominator pow(Rho, 2) + 4 * Eta * Sigma, is then exactly 0
EnergyDenominatorIsZero(e) == e = 0

\* the divisors that are zero when the three functions are evaluated in
\* the order E, L, Q
ZeroDivisors(in) ==
    {dv \in {"KerrGeoEnergy: 1 - zm^2", "KerrGeoEnergy: x^2",
             "KerrGeoEnergy: Rho^2 + 4 Eta Sigma",
             "KerrGeoAngularMomentum: x^2", "KerrGeoAngularMomentum: 1 - zm^2",
             "KerrGeoCarterConstant: 1 - zm^2"} :
        CASE dv = "KerrGeoEnergy: x^2" -> x_squared(in.x) = 0
          [] dv = "KerrGeoAngularMomentum: x^2" -> x_squared(in.x) = 0
          [] dv = "KerrGeoEnergy: Rho^2 + 4 Eta Sigma" ->
                 EnergyDenominatorIsZero(in.e)
          [] OTHER -> one_minus_zm2(in.x) = 0}

KerrGeoConstantsOfMotion(in) ==
    LET nan == KerrGeoEnergyIsNaN(in.e, in.x) IN
    [fn |-> "KerrGeoConstantsOfMotion",
     a |-> in.a, p |-> in.p, e |-> in.e, x |-> in.x,
     zero_divisors |-> ZeroDivisors(in),
     E |-> IF nan THEN "nan" ELSE "pos",
     L |-> IF nan THEN "nan" ELSE IF in.x > 0 THEN "pos" ELSE "neg",
     Q |-> IF nan THEN "nan" ELSE IF Abs(in.x) = SCALE THEN "zero" ELSE "pos"]

\* the scalar call made by the host
call_KerrGeoConstantsOfMotion ==
    /\ Idle
    /\ \E in \in MotionIn : res' = [res EXCEPT ![Main] = KerrGeoConstantsOfMotion(in)]
    /\ UNCHANGED <<stack, acct, gslHandler, heap, proc, batch, useOmp>>

\* ------------------------------------------------------------------------
\* sanity_check(a, p, e, Y)
\* ------------------------------------------------------------------------
SanityAVals == {-5000, 5000, 15000}
SanityPVals == {-10000, 100000}
SanityEVals == {-1000, 2000, 15000}
SanityYVals == {-15000, 5000, 15000}

\* a check that reports success whatever its arguments (checks that C13
\* depends on the early returns)
sanity_check_always_0(a, p, e, Y) == [ret |-> 0, printed |-> FALSE]

\* int res = 0; four early "return 1"; the printf under "if (res==1)";
\* return res
sanity_check(a, p, e, Y) ==
    IF p < 0 THEN [ret |-> 1, printed |-> FALSE]
    ELSE IF e > SCALE \/ e < 0 THEN [ret |-> 1, printed |-> FALSE]
    ELSE IF Y > SCALE \/ Y < -SCALE THEN [ret |-> 1, printed |-> FALSE]
    ELSE IF a > SCALE \/ a < 0 THEN [ret |-> 1, printed |-> FALSE]
    ELSE LET res_ == 0 IN [ret |-> res_, printed |-> res_ = 1]

\* the call made by the host
call_sanity_check ==
    /\ Idle
    /\ \E a \in SanityAVals, p \in SanityPVals, e \in SanityEVals,
          Y \in SanityYVals :
         LET out == sanity_check(a, p, e, Y) IN
         res' = [res EXCEPT ![Main] =
                   [fn |-> "sanity_check", a |-> a, p |-> p, e |-> e, Y |-> Y,
                    outcome |-> "return", ret |-> out.ret,
                    printed |-> out.printed]]
    /\ UNCHANGED <<stack, acct, gslHandler, heap, proc, batch, useOmp>>

\* ------------------------------------------------------------------------
\* Scalar calls made by the host on the main thread
\* ------------------------------------------------------------------------
Enter(fr) ==
    /\ stack' = [stack EXCEPT ![Main] = <<fr>>]
    /\ acct' = [acct EXCEPT ![Main] = NoAcct]
    /\ res' = [res EXCEPT ![Main] = NoRes]
    /\ UNCHANGED <<gslHandler, heap, proc, batch, useOmp>>

\* a prograde inclined orbit of very small spin
SepSmallSpinIn == {[a |-> SmallSpin, e |-> 6000, x |-> 5000]}

call_get_separatrix ==
    /\ Idle
    /\ \/ \E a \in AVals, e \in EVals, x \in XVals :
            Enter(Frame("get_separatrix", a, 0, e, x, 0))
       \/ \E in \in SepSmallSpinIn :
            Enter(Frame("get_separatrix", in.a, 0, in.e, in.x, 0))

call_Y_to_xI ==
    /\ Idle
    /\ \E a \in AVals, p \in PVals, e \in EVals, Y \in YVals :
         Enter(Frame("Y_to_xI", a, p, e, 0, Y))

\* ------------------------------------------------------------------------
\* Batch (vector) forms: a loop over the elements, run by a team of threads
\* under "#pragma omp parallel for" when the build defines __USE_OMP__,
\* else by the calling thread in index order
\* ------------------------------------------------------------------------
BatchLen == 2

SepBatchIn ==
    {[a |-> 0,    e |-> 2000, x |-> 5000],
     [a |-> 5000, e |-> 0,    x |-> 10000],
     [a |-> 5000, e |-> 2000, x |-> 0]}
YBatchIn ==
    {[a |-> 5000, p |-> 100000, e |-> 2000, Y |-> 9990],
     [a |-> 5000, p |-> 100000, e |-> 2000, Y |-> 5000]}
FreqBatchIn ==
    {[orbit |-> [a |-> 0, p |-> 30000, nudge |-> FALSE], e |-> 0, x |-> 10000],
     [orbit |-> [a |-> 0, p |-> 100000, nudge |-> FALSE], e |-> 2000, x |-> 5000],
     [orbit |-> [a |-> 5000, p |-> 100000, nudge |-> FALSE], e |-> 2000, x |-> 5000],
     [orbit |-> [a |-> 5000, p |-> 30000, nudge |-> FALSE], e |-> 2000, x |-> 10000]}

Unset == [outcome |-> "unset"]
Indices == 1..BatchLen
Team == IF useOmp THEN Threads ELSE {Main}

StartBatch(fn, in) ==
    /\ Idle
    /\ batch' = [fn |-> fn, in |-> in, out |-> [i \in Indices |-> Unset],
                 taken |-> {}, cur |-> [t \in Threads |-> 0]]
    /\ res' = [res EXCEPT ![Main] = NoRes]
    /\ UNCHANGED <<stack, acct, gslHandler, heap, proc, useOmp>>

KerrGeoCoordinateFrequenciesVectorized ==
    \E in \in [Indices -> FreqBatchIn] :
        StartBatch("KerrGeoCoordinateFrequenciesVectorized", in)
get_separatrix_vector ==
    \E in \in [Indices -> SepBatchIn] : StartBatch("get_separatrix_vector", in)
Y_to_xI_vector ==
    \E in \in [Indices -> YBatchIn] : StartBatch("Y_to_xI_vector", in)

\* SchwarzschildGeoCoordinateFrequencies(&OmegaPhi, &OmegaR, p, e): the
\* elliptic modulus is 4e/(p - 6 + 2e); OmegaR is the square root of a
\* multiple of p - 6 + 2e
SchwarzschildGeoCoordinateFrequencies(p, e) ==
    [gsl |-> IF e > 0 /\ p <= 6 * SCALE + 2 * e THEN "EDOM" ELSE "SUCCESS",
     OmegaPhi |-> "pos",
     OmegaR |-> IF p + 2 * e < 6 * SCALE THEN "nan"
                ELSE IF p + 2 * e = 6 * SCALE THEN "zero" ELSE "pos"]

\* the loop body of KerrGeoCoordinateFrequenciesVectorized at one index
FrequencyElement(in, ch, handler) ==
    IF in.orbit.a # 0
    THEN KerrGeoCoordinateFrequencies(in.orbit, in.e, in.x, ch, handler)
    ELSE LET sch == SchwarzschildGeoCoordinateFrequencies(in.orbit.p, in.e)
             outcome == IF sch.gsl = "SUCCESS" THEN "return"
                        ELSE IF handler = "default" THEN "abort" ELSE "throw"
         IN [fn |-> "KerrGeoCoordinateFrequencies",
             orbit |-> in.orbit, e |-> in.e, x |-> in.x,
             path |-> "schwarzschild",
             mino |-> [gsl |-> sch.gsl],
             outcome |-> outcome,
             err |-> IF outcome = "throw" THEN "NumericalFailure" ELSE "none",
             OmegaPhi |-> IF outcome = "return" THEN sch.OmegaPhi ELSE "unset",
             OmegaTheta |-> IF outcome = "return" THEN sch.OmegaPhi ELSE "unset",
             OmegaR |-> IF outcome = "return" THEN sch.OmegaR ELSE "unset",
             \* OmegaTheta_[i] = OmegaPhi_[i]
             thetaVsPhi |-> IF outcome = "return" THEN "eq" ELSE "none"]

\* the next index a free thread of the team may run
MayTake(t, i) ==
    /\ batch.fn # "none" /\ proc = "running"
    /\ t \in Team /\ batch.cur[t] = 0 /\ stack[t] = <<>>
    /\ i \in Indices \ batch.taken
    /\ useOmp \/ \A j \in Indices \ batch.taken : i <= j

\* a thread starts the loop body at index i
loop_take(t) ==
    \E i \in Indices :
      /\ MayTake(t, i)
      /\ batch' = [batch EXCEPT !.taken = @ \cup {i}, !.cur[t] = i]
      /\ LET in == batch.in[i] IN
         stack' = [stack EXCEPT ![t] =
           CASE batch.fn = "get_separatrix_vector" ->
                  <<Frame("get_separatrix", in.a, 0, in.e, in.x, 0)>>
             [] batch.fn = "Y_to_xI_vector" ->
                  <<Frame("Y_to_xI", in.a, in.p, in.e, 0, in.Y)>>
             [] OTHER -> <<>>]
      /\ acct' = [acct EXCEPT ![t] = NoAcct]
      /\ res' = [res EXCEPT ![t] = NoRes]
      /\ UNCHANGED <<gslHandler, heap, proc, useOmp>>

\* separatrix[i] = ..., x[i] = ...: the value of the finished call is stored
loop_store(t) ==
    /\ proc = "running"
    /\ batch.fn \in {"get_separatrix_vector", "Y_to_xI_vector"}
    /\ batch.cur[t] # 0 /\ stack[t] = <<>> /\ res[t].fn # "none"
    /\ batch' = [batch EXCEPT !.out[batch.cur[t]] = res[t], !.cur[t] = 0]
    /\ UNCHANGED <<stack, acct, res, gslHandler, heap, proc, useOmp>>

\* the loop body of KerrGeoCoordinateFrequenciesVectorized at the taken index
frequency_element(t) ==
    /\ proc = "running"
    /\ batch.fn = "KerrGeoCoordinateFrequenciesVectorized"
    /\ batch.cur[t] # 0
    /\ LET i == batch.cur[t]
           in == batch.in[i] IN
       \E ch \in ChoicesFor(in.orbit, in.e, in.x) :
         LET el == FrequencyElement(in, ch, gslHandler) IN
         CASE el.outcome = "return" ->
                /\ batch' = [batch EXCEPT !.out[i] = el, !.cur[t] = 0]
                /\ UNCHANGED <<res, proc>>
           [] el.outcome = "abort" ->
                /\ proc' = "aborted"
                /\ UNCHANGED <<res, batch>>
           [] OTHER ->
                /\ proc' = ProcAfterThrow
                /\ batch' = BatchAfterThrow
                /\ res' = IF InParallel THEN res
                          ELSE [res EXCEPT ![Main] =
                                  [fn |-> batch.fn, outcome |-> "throw",
                                   err |-> el.err, in |-> batch.in,
                                   out |-> batch.out, at |-> i]]
    /\ UNCHANGED <<stack, acct, gslHandler, heap, useOmp>>

\* every index has run: the parallel region ends, the locals of the team
\* are gone, and the batch function returns to the host
vector_return ==
    /\ proc = "running"
    /\ batch.fn # "none"
    /\ batch.taken = Indices
    /\ \A t \in Threads : batch.cur[t] = 0
    /\ batch' = NoBatch
    /\ res' = [t \in Threads |->
                 IF t = Main
                 THEN [fn |-> batch.fn, outcome |-> "return", err |-> "none",
                       in |-> batch.in, out |-> batch.out, at |-> 0]
                 ELSE NoRes]
    /\ acct' = [t \in Threads |-> NoAcct]
    /\ UNCHANGED <<stack, gslHandler, heap, proc, useOmp>>

\* ------------------------------------------------------------------------
\* ODE derivative functions of src/src/ode_base_example.cc, called by the
\* integrator on the main thread
\* ------------------------------------------------------------------------
\* arguments (a, p, e, Y) of pn5
Pn5In ==
    {[a |-> 0, p |-> 30000,  e |-> 2000, Y |-> 9990],
     [a |-> 0, p |-> 100000, e |-> 2000, Y |-> 9990],
     [a |-> 0, p |-> 100000, e |-> 2000, Y |-> 5000],
     [a |-> 0, p |-> 30000,  e |-> 2000, Y |-> 10000]}
\* arguments (p, e) of SchwarzEccFlux::deriv_func
SchwarzIn ==
    {[p |-> 30000, e |-> 2000], [p |-> 64000, e |-> 2000],
     [p |-> 60000, e |-> 0],    [p |-> 100000, e |-> 2000]}
\* arguments (a, p, e, x) of KerrEccentricEquatorial::deriv_func
KerrEqIn ==
    {[a |-> 0,    p |-> 30000,  e |-> 2000,  x |-> 10000],
     [a |-> 0,    p |-> 64000,  e |-> 2000,  x |-> 10000],
     [a |-> 0,    p |-> 100000, e |-> 2000,  x |-> 10000],
     [a |-> 0,    p |-> 100000, e |-> -1000, x |-> 10000],
     [a |-> 5000, p |-> 30000,  e |-> 2000,  x |-> 10000],
     [a |-> 5000, p |-> 100000, e |-> 2000,  x |-> 10000]}

\* KerrGeoEquatorialCoordinateFrequencies is declared in Utility.hh and not
\* defined in these sources: the class of the Omega_phi it delivers is open
EquatorialOmegaPhi == {"pos", "nan"}

\* what a derivative function leaves behind: freq is the frequency routine
\* it called ("none" when it returned before any), zeroed whether it set
\* pdot = edot = xdot = 0
DerivOutcome(fr, kind, err, freq, zeroed, p_sep) ==
    [fn |-> fr.fn, a |-> fr.a, p |-> fr.p, e |-> fr.e, x |-> fr.x, Y |-> fr.Y,
     outcome |-> kind, err |-> err, freq |-> freq, zeroed |-> zeroed,
     p_sep |-> p_sep, solves |-> acct[Main].solves]

\* the derivative function on the main thread is over
DerivEnds(out) ==
    /\ stack' = [stack EXCEPT ![Main] = <<>>]
    /\ res' = [res EXCEPT ![Main] = out]
    /\ proc' = IF out.outcome = "abort" THEN "aborted" ELSE proc

call_pn5 ==
    /\ Idle
    /\ \E in \in Pn5In : Enter(Frame("pn5", in.a, in.p, in.e, 0, in.Y))

\* if (abs(Y) == 1.): the equatorial routine with x = Y, then the three
\* derivatives; else x = Y_to_xI(a, p, e, Y)
pn5_start ==
    /\ At(Main, "pn5", "start")
    /\ LET fr == Top(Main) IN
       IF Abs(fr.Y) = SCALE
       THEN DerivEnds(DerivOutcome([fr EXCEPT !.x = fr.Y], "return", "none",
                     "KerrGeoEquatorialCoordinateFrequencies", FALSE, 0))
       ELSE /\ stack' = Call(Main, [fr EXCEPT !.pc = "freq"],
                              Frame("Y_to_xI", fr.a, fr.p, fr.e, 0, fr.Y))
            /\ UNCHANGED <<res, proc>>
    /\ UNCHANGED <<acct, gslHandler, heap, batch, useOmp>>

\* KerrGeoCoordinateFrequencies(Omega_phi, Omega_theta, Omega_r, a, p, e, x)
\* with the x of Y_to_xI, then *pdot, *edot, *Ydot
pn5_freq ==
    /\ At(Main, "pn5", "freq")
    /\ LET fr == [Top(Main) EXCEPT !.x = Top(Main).rv]
           o == [a |-> fr.a, p |-> fr.p, nudge |-> FALSE] IN
       \E ch \in ChoicesFor(o, fr.e, fr.x) :
         LET out == KerrGeoCoordinateFrequencies(o, fr.e, fr.x, ch, gslHandler)
         IN DerivEnds(DerivOutcome(fr, out.outcome, out.err,
                                   "KerrGeoCoordinateFrequencies", FALSE, 0))
    /\ UNCHANGED <<acct, gslHandler, heap, batch, useOmp>>

\* SchwarzEccFlux::deriv_func: if ((6.0 + 2. * e) > p) zero and return; else
\* SchwarzschildGeoCoordinateFrequencies(Omega_phi, Omega_r, p, e) and the
\* flux formulas
SchwarzEccFlux_deriv_func ==
    /\ Idle
    /\ \E in \in SchwarzIn :
         LET fr == Frame("SchwarzEccFlux_deriv_func", 0, in.p, in.e, SCALE, 0)
             sch == SchwarzschildGeoCoordinateFrequencies(in.p, in.e)
             kind == IF sch.gsl = "SUCCESS" THEN "return"
                     ELSE IF GslErrorAborts THEN "abort" ELSE "throw"
             out == IF 6 * SCALE + 2 * in.e > in.p
                    THEN DerivOutcome(fr, "return", "none", "none", TRUE, 0)
                    ELSE DerivOutcome(fr, kind,
                           IF kind = "throw" THEN "NumericalFailure" ELSE "none",
                           "SchwarzschildGeoCoordinateFrequencies", FALSE, 0)
         IN /\ res' = [res EXCEPT ![Main] = out]
            /\ proc' = IF out.outcome = "abort" THEN "aborted" ELSE proc
    /\ UNCHANGED <<stack, acct, gslHandler, heap, batch, useOmp>>

call_KerrEccentricEquatorial_deriv_func ==
    /\ Idle
    /\ \E in \in KerrEqIn :
         Enter(Frame("KerrEccentricEquatorial_deriv_func",
                     in.a, in.p, in.e, in.x, 0))

\* double p_sep = get_separatrix(a, e, x)
KerrEccentricEquatorial_start ==
    /\ At(Main, "KerrEccentricEquatorial_deriv_func", "start")
    /\ LET fr == Top(Main) IN
       stack' = Call(Main, [fr EXCEPT !.pc = "guard"],
                     Frame("get_separatrix", fr.a, 0, fr.e, fr.x, 0))
    /\ UNCHANGED <<acct, res, gslHandler, heap, proc, batch, useOmp>>

\* if ((e < 0.0)||(p<p_sep)) zero and return; else the equatorial routine,
\* the isnan(r) test, and risco = get_separatrix(a, 0.0, x)
KerrEccentricEquatorial_guard ==
    /\ At(Main, "KerrEccentricEquatorial_deriv_func", "guard")
    /\ LET fr == [Top(Main) EXCEPT !.p_sep = Top(Main).rv] IN
       IF fr.e < 0 \/ fr.p < fr.p_sep
       THEN DerivEnds(DerivOutcome(fr, "return", "none", "none", TRUE, fr.p_sep))
       ELSE \E om \in EquatorialOmegaPhi :
              IF IsNaN(om)
              THEN DerivEnds(DerivOutcome(fr, "throw", "std::exception",
                       "KerrGeoEquatorialCoordinateFrequencies", FALSE, fr.p_sep))
              ELSE /\ stack' = Call(Main, [fr EXCEPT !.pc = "flux"],
                                   Frame("get_separatrix", fr.a, 0, 0, fr.x, 0))
                   /\ UNCHANGED <<res, proc>>
    /\ UNCHANGED <<acct, gslHandler, heap, batch, useOmp>>

\* risco is known: *pdot, *edot, *xdot = 0.0; return
KerrEccentricEquatorial_flux ==
    /\ At(Main, "KerrEccentricEquatorial_deriv_func", "flux")
    /\ LET fr == Top(Main) IN
       DerivEnds(DerivOutcome(fr, "return", "none",
                 "KerrGeoEquatorialCoordinateFrequencies", FALSE, fr.p_sep))
    /\ UNCHANGED <<acct, gslHandler, heap, batch, useOmp>>

Init ==
    /\ stack = [t \in Threads |-> <<>>]
    /\ acct = [t \in Threads |-> NoAcct]
    /\ res = [t \in Threads |-> NoRes]
    /\ gslHandler = "default"
    /\ heap = 0
    /\ proc = "running"
    /\ batch = NoBatch
    /\ useOmp \in BOOLEAN

Next ==
    \/ EllipticK
    \/ EllipticF
    \/ EllipticE
    \/ EllipticEIncomp
    \/ EllipticPi
    \/ EllipticPiIncomp
    \/ call_KerrGeoCoordinateFrequencies
    \/ call_KerrEqSpinFrequenciesCorrection
    \/ call_KerrGeoConstantsOfMotion
    \/ call_sanity_check
    \/ call_get_separatrix
    \/ call_Y_to_xI
    \/ KerrGeoCoordinateFrequenciesVectorized
    \/ get_separatrix_vector
    \/ Y_to_xI_vector
    \/ \E t \in Threads : loop_take(t)
    \/ \E t \in Threads : frequency_element(t)
    \/ \E t \in Threads : loop_store(t)
    \/ vector_return
    \/ \E t \in Threads : Step(t)
    \/ call_pn5
    \/ pn5_start
    \/ pn5_freq
    \/ SchwarzEccFlux_deriv_func
    \/ call_KerrEccentricEquatorial_deriv_func
    \/ KerrEccentricEquatorial_start
    \/ KerrEccentricEquatorial_guard
    \/ KerrEccentricEquatorial_flux

Spec == Init /\ [][Next]_vars

\* ------------------------------------------------------------------------
\* Properties
\* ------------------------------------------------------------------------
EllipticNames ==
    {"EllipticK", "EllipticF", "EllipticE", "EllipticEIncomp", "EllipticPi",
     "EllipticPiIncomp"}
VectorNames ==
    {"KerrGeoCoordinateFrequenciesVectorized", "get_separatrix_vector",
     "Y_to_xI_vector"}
Last == res[Main]
Finished(t, fn) == res[t].fn = fn /\ stack[t] = <<>>

\* C1: KerrGeoCoordinateFrequencies never returns normally when one of
\* Gamma, Upsilon_phi, Upsilon_theta, Upsilon_r is NaN, on either path, and
\* so never delivers a NaN in Omega_phi, Omega_theta or Omega_r.
C1_NoNaNIsReturned ==
    (Last.fn = "KerrGeoCoordinateFrequencies" /\ Last.outcome = "return") =>
        /\ ~IsNaN(Last.mino.CapitalGamma)
        /\ ~IsNaN(Last.mino.CapitalUpsilonPhi)
        /\ ~IsNaN(Last.mino.CapitalUpsilonTheta)
        /\ ~IsNaN(Last.mino.CapitalUpsilonR)
        /\ ~IsNaN(Last.OmegaPhi) /\ ~IsNaN(Last.OmegaTheta) /\ ~IsNaN(Last.OmegaR)

\* C2: a solve whose initial interval has no sign change between its
\* endpoints ends in a fatal failure and never returns a value: when its
\* loop is over, solver is on neither of its returning branches (success,
\* or the iteration cap).
C2_NoBracketIsFatal ==
    \A t \in Threads :
        (At(t, "solver", "check") /\ Top(t).s.kind = "nostraddle") =>
            (Top(t).status # "SUCCESS" /\ ~hit_max_iter(Top(t)))

\* the loop of solver on thread t ended without success on the cap
Exhausted(t) ==
    At(t, "solver", "check") /\ Top(t).status # "SUCCESS"
        /\ Top(t).iter = max_iter
\* the loop of solver on thread t ended without success below the cap
FailedEarly(t) ==
    At(t, "solver", "check") /\ Top(t).status # "SUCCESS"
        /\ Top(t).iter < max_iter

\* C3: a solve that exhausts its iteration cap without the interval test
\* succeeding does not fail: it emits its diagnostic and hands the current
\* estimate r to its caller; a non-success status below the cap is fatal.
C3_ExhaustionIsSoft ==
    [][\A t \in Threads :
        LET n == Len(stack[t]) IN
        /\ (Exhausted(t) /\ stack'[t] # stack[t]) =>
              /\ proc' = "running"
              /\ res'[t] = res[t]
              /\ Len(stack'[t]) = n + 1
              /\ acct'[t].lines = acct[t].lines + 2
        /\ (At(t, "solver", "diag") /\ stack'[t] # stack[t]) =>
              /\ proc' = "running"
              /\ Len(stack'[t]) = n - 1
              /\ stack'[t][n - 1].rv = Top(t).r
              /\ acct'[t].lines = acct[t].lines + 1
        /\ (FailedEarly(t) /\ stack'[t] # stack[t]) =>
              \/ proc' = "terminated"
              \/ stack'[t] = <<>> /\ res'[t].fn # "none"
                    /\ res'[t].outcome = "throw"
      ]_vars

\* C3 witness: Y_to_xI returned a value after its solve ran max_iter
\* iterations and printed the three diagnostic lines
C3_Witness ==
    /\ Finished(Main, "Y_to_xI")
    /\ Last.outcome = "return"
    /\ Last.maxIter = max_iter
    /\ Last.lines = 3

\* C4: whenever the evaluation behind one of the six elliptic adapters does
\* not succeed, the adapter raises a NumericalFailure to its caller,
\* whatever calls were made before in the process.
C4_FailedAdapterRaises ==
    (Last.fn \in EllipticNames /\ Last.status # "SUCCESS") =>
        (Last.outcome = "throw" /\ Last.err = "NumericalFailure")

\* C5: the NumericalFailure of an elliptic adapter carries every argument
\* of the failing call: k; (phi, k); (n, k); (n, phi, k).
C5_FailureCarriesAllArguments ==
    (Last.fn \in EllipticNames /\ Last.outcome = "throw") =>
        Last.msg = Last.args

\* what the scalar form computes on the inputs of one element
ScalarAgrees(el, in) ==
    \E ch \in ChoicesFor(in.orbit, in.e, in.x) :
        LET sc == KerrGeoCoordinateFrequencies(in.orbit, in.e, in.x, ch,
                                               gslHandler)
        IN /\ sc.outcome = el.outcome
           /\ sc.path = el.path
           /\ sc.OmegaPhi = el.OmegaPhi
           /\ sc.OmegaTheta = el.OmegaTheta
           /\ sc.OmegaR = el.OmegaR

\* C6: what KerrGeoCoordinateFrequenciesVectorized writes at index i is what
\* KerrGeoCoordinateFrequencies computes on (a[i], p[i], e[i], x[i]), by the
\* same path and with the same failure outcome, also when a[i] = 0.
C6_VectorEqualsScalar ==
    batch.fn = "KerrGeoCoordinateFrequenciesVectorized" =>
        \A i \in Indices :
            batch.out[i].outcome # "unset" =>
                ScalarAgrees(batch.out[i], batch.in[i])

\* C7: a batch call runs all elements or, when an element raises a fatal
\* error, stops and hands that error to the caller of the batch function:
\* the error never ends the process instead.
C7_BatchFailurePropagates ==
    /\ proc # "terminated"
    /\ (Last.fn \in VectorNames /\ Last.outcome = "return") =>
           \A i \in Indices : Last.out[i].outcome # "unset"

\* C8: in a batch call the evaluation of an element writes no process-wide
\* state: the GSL error handler is the same before and after every step
\* taken while the batch runs.
C8_NoSharedStateWritten ==
    [][batch.fn # "none" => gslHandler' = gslHandler]_vars

\* C9: for a = 0, get_separatrix returns exactly 6 + 2e for every e and x
\* without running a root solve; get_separatrix(0, 0, 1) = 6.
C9_SchwarzschildClosedForm ==
    \A t \in Threads :
        (Finished(t, "get_separatrix") /\ res[t].a = 0) =>
            /\ res[t].outcome = "return"
            /\ res[t].val = 6 * SCALE + 2 * res[t].e
            /\ res[t].solves = 0
            /\ (res[t].e = 0 /\ res[t].x = SCALE => res[t].val = 6 * SCALE)

\* C9 witness: get_separatrix(0, 0, 1) has returned 6
C9_Witness ==
    /\ Finished(Main, "get_separatrix")
    /\ Last.a = 0 /\ Last.e = 0 /\ Last.x = SCALE
    /\ Last.val = 6 * SCALE

\* C10: Y_to_xI returns Y unchanged without any solve exactly when
\* |Y| > 0.998; for |Y| <= 0.998 it runs one bracketed solve.
C10_FastPathBeyondYLIM ==
    \A t \in Threads :
        Finished(t, "Y_to_xI") =>
            IF Abs(res[t].Y) > YLIM
            THEN res[t].outcome = "return" /\ res[t].val = res[t].Y
                    /\ res[t].solves = 0
            ELSE res[t].direct = 1

\* C10 witness: Y_to_xI with Y = 0.999 has returned 0.999 with no solve
C10_Witness ==
    /\ Finished(Main, "Y_to_xI")
    /\ Last.Y = 9990 /\ Last.val = 9990 /\ Last.solves = 0

\* C11: for e = 0 and |x| = 1 the scalar frequency call delivers
\* Omega_theta = Omega_phi exactly, for zero and for nonzero spin and every p.
C11_ThetaEqualsPhi ==
    (Last.fn = "KerrGeoCoordinateFrequencies" /\ Last.outcome = "return"
        /\ Last.e = 0 /\ Abs(Last.x) = SCALE) =>
            Last.thetaVsPhi = "eq"

\* the arguments of the last sanity_check lie in the ranges of the data
\* model: p >= 0, 0 <= e <= 1, -1 <= Y <= 1, 0 <= a <= 1
SanityInRange ==
    /\ Last.p >= 0
    /\ 0 <= Last.e /\ Last.e <= SCALE
    /\ -SCALE <= Last.Y /\ Last.Y <= SCALE
    /\ 0 <= Last.a /\ Last.a <= SCALE

\* C13 as stated: sanity_check returns 0 for every input, also for p < 0,
\* e outside [0,1], Y outside [-1,1] or a outside [0,1].
C13_SanityCheckAlwaysZero ==
    Last.fn = "sanity_check" => Last.ret = 0

\* C13 amended: sanity_check returns 1 when an argument is out of range and 0
\* otherwise; the diagnostic under "if (res==1)" is never printed.
C13_SanityCheckFlagsOutOfRange ==
    Last.fn = "sanity_check" =>
        /\ Last.ret = (IF SanityInRange THEN 0 ELSE 1)
        /\ ~Last.printed

\* C13 witness: sanity_check returned 1 for a negative p without printing
C13_Witness ==
    Last.fn = "sanity_check" /\ Last.p < 0 /\ Last.ret = 1 /\ ~Last.printed

DerivNames ==
    {"pn5", "SchwarzEccFlux_deriv_func", "KerrEccentricEquatorial_deriv_func"}

\* the separatrix of the orbit a finished derivative call was given: 6 + 2e
\* at a = 0, else the value the call obtained from get_separatrix(a, e, x)
SeparatrixOf(r) == IF r.a = 0 THEN 6 * SCALE + 2 * r.e ELSE r.p_sep

\* C12: pn5, SchwarzEccFlux::deriv_func and
\* KerrEccentricEquatorial::deriv_func never call a frequency routine with
\* p <= p_sep(a, e, x), p = p_sep included: they zero the three derivatives
\* and return before.
C12_NoFrequencyCallAtOrBelowSeparatrix ==
    (Last.fn \in DerivNames /\ Last.p <= SeparatrixOf(Last)) =>
        /\ Last.freq = "none"
        /\ Last.outcome = "return" => Last.zeroed

\* the frame pushed on thread t by the step is solver(func, lo, hi)
Pushed(t, func, lo, hi) ==
    LET n == Len(stack[t]) IN
    /\ Len(stack'[t]) = n + 1
    /\ stack'[t][n + 1].fn = "solver" /\ stack'[t][n + 1].pc = "start"
    /\ stack'[t][n + 1].func = func
    /\ stack'[t][n + 1].x_lo = lo /\ stack'[t][n + 1].x_hi = hi

\* the step returns v from the innermost call of thread t: to the caller's
\* frame, or, from the outermost call, to the host after `solves` solves
Returned(t, v, solves) ==
    LET n == Len(stack[t]) IN
    /\ Len(stack'[t]) = n - 1
    /\ n > 1 => stack'[t][n - 1].rv = v
    /\ n = 1 => /\ res'[t].outcome = "return" /\ res'[t].val = v
                /\ res'[t].solves = solves

\* C14: in the general case of get_separatrix the first solve is the polar
\* polynomial over [1 + sqrt(3) + sqrt(3 + 2 sqrt(3)), 8]; at x = 0 its
\* result is returned directly, after exactly one solve.
C14_PolarSolveFirst ==
    [][\A t \in Threads :
        /\ (At(t, "get_separatrix", "start") /\ Len(stack'[t]) > Len(stack[t]))
              => /\ Pushed(t, "polar", 52745, 8 * SCALE)
                 /\ acct[t].solves = 0 \/ Len(stack[t]) > 1
        /\ (At(t, "get_separatrix", "polar") /\ Top(t).x = 0
                /\ stack'[t] # stack[t])
              => Returned(t, Top(t).rv, 1)
      ]_vars

\* C14 witness: get_separatrix(0.5, 0.2, 0) has returned the root of the
\* polar polynomial, 6.228, after one solve
C14_Witness ==
    /\ Finished(Main, "get_separatrix")
    /\ Last.a = 5000 /\ Last.e = 2000 /\ Last.x = 0
    /\ Last.solves = 1
    /\ 62200 <= Last.val /\ Last.val <= 62400

\* the step returns v from the innermost call of thread t; the outermost
\* call has then called solver `direct` times itself
ReturnedOwn(t, v, direct) ==
    LET n == Len(stack[t]) IN
    /\ Len(stack'[t]) = n - 1
    /\ n > 1 => stack'[t][n - 1].rv = v
    /\ n = 1 => /\ res'[t].outcome = "return" /\ res'[t].val = v
                /\ res'[t].direct = direct

\* C15: in the general case with x # 0 the value returned is that of the
\* full-polynomial solve, the last of the solves get_separatrix calls: for
\* x > 0 after the polar solve and an equatorial solve over [1 + e, 6 + 2e],
\* on [equat_p_sep, polar_p_sep]; for x < 0 without equatorial solve, on
\* [polar_p_sep, 12].
C15_FullSolveLast ==
    [][\A t \in Threads :
        LET n == Len(stack[t])
            fr == Top(t) IN
        /\ (At(t, "get_separatrix", "polar") /\ fr.x > 0 /\ stack'[t] # stack[t])
              => /\ Pushed(t, "equat", SCALE + fr.e, 6 * SCALE + 2 * fr.e)
                 /\ stack'[t][n].polar_p_sep = fr.rv
        /\ (At(t, "get_separatrix", "polar") /\ fr.x < 0 /\ stack'[t] # stack[t])
              => Pushed(t, "full", fr.rv, 12 * SCALE)
        /\ (At(t, "get_separatrix", "equat") /\ stack'[t] # stack[t])
              => /\ fr.x > 0
                 /\ Pushed(t, "full", fr.rv, fr.polar_p_sep)
        /\ (At(t, "get_separatrix", "full") /\ stack'[t] # stack[t])
              => /\ fr.x # 0
                 /\ ReturnedOwn(t, fr.rv, IF fr.x > 0 THEN 3 ELSE 2)
      ]_vars

\* C15 witness: get_separatrix(0.5, 0.2, 0.5) and get_separatrix(0.5, 0.2,
\* -0.5) have returned after three and after two solves
C15_Witness ==
    /\ Finished(Main, "get_separatrix")
    /\ Last.a = 5000 /\ Last.e = 2000
    /\ \/ Last.x = 5000 /\ Last.solves = 3
               /\ 53400 <= Last.val /\ Last.val <= 53600
       \/ Last.x = -5000 /\ Last.solves = 2
               /\ 71200 <= Last.val /\ Last.val <= 71500

\* |x_hi - x_lo| < 1e-3 * min(|x_lo|, |x_hi|)
PassesIntervalTest(lo, hi) == Abs(hi - lo) * 1000 < MinOf(Abs(lo), Abs(hi))

\* C16: every call of solver runs at least 1 and at most 1000 passes of the
\* root-finder step, and when it returns a value its final bracket passes
\* the interval test (absolute tolerance 0, relative 1e-3) or exactly 1000
\* passes were made.
C16_IterationsBoundedAndToleranceMet ==
    [][\A t \in Threads :
        LET n == Len(stack[t])
            fr == Top(t) IN
        /\ (At(t, "solver", "loop") /\ stack'[t] # stack[t] /\ proc' = "running")
              => /\ stack'[t][n].iter = fr.iter + 1
                 /\ stack'[t][n].iter <= 1000
        /\ (Running(t) /\ fr.fn = "solver" /\ Len(stack'[t]) = n - 1)
              => /\ 1 <= fr.iter /\ fr.iter <= 1000
                 /\ stack'[t][n - 1].rv = fr.r
                 /\ PassesIntervalTest(fr.x_lo, fr.x_hi) \/ fr.iter = 1000
      ]_vars

\* C16 witness: a solve is about to return after more than one pass, its
\* bracket within the tolerance
C16_Witness ==
    \E t \in Threads :
        /\ At(t, "solver", "check")
        /\ Top(t).status = "SUCCESS"
        /\ 2 <= Top(t).iter /\ Top(t).iter < 1000
        /\ PassesIntervalTest(Top(t).x_lo, Top(t).x_hi)
        /\ Top(t).x_lo < Top(t).x_hi

\* C17: a solve that exhausts its cap starts no further root solve (no solve
\* is in progress above a solver that is emitting its diagnostic), so a call
\* of get_separatrix runs at most three solves and a call of Y_to_xI at most
\* one.  Stated for solves whose function is finite at both ends of the
\* bracket and for eccentric orbits.
C17_ExhaustionStartsNoSolve ==
    \A t \in Threads :
        /\ Finished(t, "get_separatrix") => res[t].solves <= 3
        /\ (Finished(t, "Y_to_xI") /\ res[t].e > 0) => res[t].solves <= 1
        /\ \A i \in 1..Len(stack[t]) :
              (stack[t][i].fn = "solver" /\ stack[t][i].pc = "diag"
                    /\ stack[t][i].s.kind = "ok")
                  => \A j \in (i + 1)..Len(stack[t]) :
                         stack[t][j].fn # "solver"

\* C18: for |Y| <= 0.998, Y_to_xI calls solver with the bracket
\* [max(Y - 0.15, -0.998), min(Y + 0.15, 0.998)], which has x_lo < x_hi, lies
\* inside [-0.998, 0.998] and contains Y.
C18_BracketAroundY ==
    \A t \in Threads : \A i \in 1..Len(stack[t]) :
        LET fr == stack[t][i] IN
        /\ (fr.fn = "Y_to_xI" /\ fr.pc = "solve") => Abs(fr.Y) <= 9980
        /\ (fr.fn = "solver" /\ fr.func = "Y_to_xI_eq" /\ fr.pc = "start") =>
              /\ Abs(fr.Y) <= 9980
              /\ fr.x_lo = MaxOf(fr.Y - 1500, -9980)
              /\ fr.x_hi = MinOf(fr.Y + 1500, 9980)
              /\ fr.x_lo < fr.x_hi
              /\ -9980 <= fr.x_lo /\ fr.x_hi <= 9980
              /\ fr.x_lo <= fr.Y /\ fr.Y <= fr.x_hi

\* C18 witness: the solve of Y_to_xI for Y = -0.998 is starting on
\* [-0.998, -0.848]
C18_Witness ==
    \E t \in Threads :
        /\ At(t, "solver", "start")
        /\ Top(t).func = "Y_to_xI_eq" /\ Top(t).Y = -9980
        /\ Top(t).x_lo = -9980 /\ Top(t).x_hi = -8480

\* every evaluation the generic path can hand back
AnyChoice ==
    [r : {"pos", "nan"}, th : {"pos", "nan"}, gsl : {"SUCCESS", "EDOM"}]

\* C19: KerrGeoCoordinateFrequencies takes the equatorial closed-form path
\* exactly when |x| = 1; there the outcome is a function of (a, p) alone,
\* the same for every e, either sign of x, and whatever the elliptic
\* integrals would deliver: none is evaluated, no NumericalFailure arises.
C19_EquatorialDependsOnAPOnly ==
    Last.fn = "KerrGeoCoordinateFrequencies" =>
        /\ (Last.path = "equatorial") <=> (Abs(Last.x) = SCALE)
        /\ Last.path = "equatorial" =>
              /\ Last.outcome # "abort" /\ Last.err # "NumericalFailure"
              /\ \A e2 \in EVals, x2 \in {-SCALE, SCALE}, ch \in AnyChoice,
                    h \in {"default", "off"} :
                    LET o2 == KerrGeoCoordinateFrequencies(Last.orbit, e2, x2,
                                                           ch, h)
                    IN /\ o2.outcome = Last.outcome /\ o2.err = Last.err
                       /\ o2.OmegaPhi = Last.OmegaPhi
                       /\ o2.OmegaTheta = Last.OmegaTheta
                       /\ o2.OmegaR = Last.OmegaR

\* C19 witness: a retrograde eccentric call has returned by the equatorial
\* path
C19_Witness ==
    /\ Last.fn = "KerrGeoCoordinateFrequencies"
    /\ Last.x = -SCALE /\ Last.e = 2000
    /\ Last.path = "equatorial" /\ Last.outcome = "return"

\* C20: a scalar evaluation that ends in a fatal error has written none of
\* its outputs: KerrGeoCoordinateFrequencies (also as the element of a batch
\* that failed) and KerrEqSpinFrequenciesCorrection assign them after the
\* last call that can fail; get_separatrix and Y_to_xI have the returned
\* value as their only output and no call of them ends in a fatal error.
C20_NoPartialResults ==
    /\ (Last.fn = "KerrGeoCoordinateFrequencies" /\ Last.outcome # "return") =>
          /\ Last.OmegaPhi = "unset" /\ Last.OmegaTheta = "unset"
          /\ Last.OmegaR = "unset"
    /\ (Last.fn = "KerrEqSpinFrequenciesCorrection" /\ Last.outcome # "return")
          => Last.deltaOmegaR = "unset" /\ Last.deltaOmegaPhi = "unset"
    /\ (Last.fn \in VectorNames /\ Last.outcome = "throw") =>
          Last.out[Last.at] = Unset
    /\ \A t \in Threads :
          (Finished(t, "get_separatrix") \/ Finished(t, "Y_to_xI"))
              => res[t].outcome = "return"

\* C20 witness: a call of KerrEqSpinFrequenciesCorrection has thrown from its
\* last adapter call with both outputs unwritten
C20_Witness ==
    /\ Last.fn = "KerrEqSpinFrequenciesCorrection"
    /\ Last.outcome = "throw" /\ Last.failed = "EllipticPi"
    /\ Last.deltaOmegaR = "unset" /\ Last.deltaOmegaPhi = "unset"

\* C21: in every call of get_separatrix with x > 0 that reaches the third
\* solve, that solve is started with x_lo <= x_hi: the equatorial result is
\* not greater than the polar result.
C21_ThirdBracketOrdered ==
    \A t \in Threads : \A i \in 1..Len(stack[t]) :
        LET fr == stack[t][i] IN
        (fr.fn = "solver" /\ fr.func = "full" /\ fr.pc = "start" /\ fr.x > 0)
            => fr.x_lo <= fr.x_hi

\* workspaces held by the calls of solver in progress on thread t
Held(t) ==
    Cardinality({i \in 1..Len(stack[t]) :
                    stack[t][i].fn = "solver" /\ stack[t][i].pc # "start"})

C23_NoDivisionByZero ==
    Last.fn = "KerrGeoConstantsOfMotion" => Last.zero_divisors = {}

====
